---- MODULE Spec2Model ----
(***************************************************************************)
(* A model of the enum-set crate: the CLike ordinal mapping, the EnumSet   *)
(* bit-mask container with its set algebra, the Iter cursor over a mask    *)
(* snapshot, and the derive(CLike) generator with its eligibility checks.  *)
(*                                                                         *)
(* A u32 is modelled as the set of its set bit positions, a subset of      *)
(* 0..W-1: bit i of the word is 1 iff i is in the set.  The bitwise        *)
(* operators are defined on that representation position by position.     *)
(***************************************************************************)
EXTENDS Integers, Sequences, FiniteSets, TLC

VARIABLES
    ety,      \* the element type E the sets and iterators are instantiated at
    sets,     \* sets[k]: the `bits` field of the k-th EnumSet<E> value
    last,     \* the most recent call: operation, receiver, argument, result
    its,      \* its[k]: the k-th Iter<E> value and what its caller has seen
    gen       \* the most recent derive(CLike) expansion: input and outcome

vars == <<ety, sets, last, its, gen>>

----------------------------------------------------------------------------
(* Bounds of the model.                                                    *)

\* Number of Bar values with an ordinal of W or more used as arguments.
ProbeOver == 1
\* Longest sequence handed to extend / from_iter.
MaxExtend == 2
\* Longest variant list handed to derive(CLike).
MaxVariants == 34

----------------------------------------------------------------------------
(* u32 words.                                                              *)

\* Width of the mask; also the bound of the assertion in bit().
W == 32

Word == SUBSET (0 .. W - 1)

Zero == {}
One == {0}

BitOr(x, y) == x \cup y
BitAnd(x, y) == x \cap y
BitXor(x, y) == (x \ y) \cup (y \ x)
BitNot(x) == (0 .. W - 1) \ x
\* x >> 1 : every bit moves one position down, bit 0 falls off.
Shr1(x) == {i - 1 : i \in x \ {0}}
\* x << n on a u32 without overflow checks: the shift amount is taken mod W
\* and bits moved past the top are lost.
Shl(x, n) == {i + (n % W) : i \in x} \cap (0 .. W - 1)
count_ones(x) == Cardinality(x)

----------------------------------------------------------------------------
(* Element types and the CLike ordinal mapping.                            *)

FooVariants == <<"A", "B", "C">>

BarVariants ==
    << "V00", "V01", "V02", "V03", "V04", "V05", "V06", "V07", "V08", "V09",
       "V10", "V11", "V12", "V13", "V14", "V15", "V16", "V17", "V18", "V19",
       "V20", "V21", "V22", "V23", "V24", "V25", "V26", "V27", "V28", "V29",
       "V30", "V31", "V32", "V33", "V34", "V35", "V36", "V37", "V38", "V39" >>

Types == {"Foo", "Bar"}

Variants(ty) == IF ty = "Foo" THEN FooVariants ELSE BarVariants

Values(ty) == {Variants(ty)[i] : i \in 1 .. Len(Variants(ty))}

\* `*self as u32`: the zero-based declaration position of the variant.
to_u32(ty, e) ==
    (CHOOSE i \in 1 .. Len(Variants(ty)) : Variants(ty)[i] = e) - 1

\* The possible outcomes of from_u32(v).  On an ordinal of the type it is the
\* variant declared at that position.  Off the type's ordinals the derived
\* impl of Foo hits unreachable!(), and Bar's transmute is undefined: any
\* value of the type, or a bit pattern that is no value at all.
from_u32(ty, v) ==
    IF v < Len(Variants(ty)) THEN {Variants(ty)[v + 1]}
    ELSE IF ty = "Foo" THEN {"unreachable!"}
    ELSE Values(ty) \cup {"invalid"}

\* The values the model passes as arguments: every Foo; of Bar the lowest
\* value, the value of the highest ordinal the mask holds (W - 1) and the
\* first ProbeOver values past it.
ProbeFoo == Values("Foo")

ProbeBar ==
    {BarVariants[o + 1] : o \in {0} \cup (W - 1 .. W - 1 + ProbeOver)}

Probe(ty) == IF ty = "Foo" THEN ProbeFoo ELSE ProbeBar

----------------------------------------------------------------------------
(* EnumSet.  A call that can panic returns a record with a `panicked`      *)
(* field; `bits` is then the mask the receiver is left with.               *)

\* The assertion with its bound off by one: value <= 32.
AssertFailsOff(value) == ~(value <= W)

\* assert!(value < 32, ...) in bit()
AssertFails(value) == ~(value < W)

\* bit() shifting one position too far: 1 << (value + 1).
bitShifted(ty, e) ==
    LET value == to_u32(ty, e)
    IN  [panicked |-> AssertFails(value), val |-> Shl(One, value + 1)]

\* bit(e): does the assertion fire, and 1 << value otherwise.
bit(ty, e) ==
    LET value == to_u32(ty, e)
    IN  [panicked |-> AssertFails(value), val |-> Shl(One, value)]

new_with_bits(bits) == bits

new == new_with_bits(Zero)

len(bits) == count_ones(bits)

is_empty(bits) == bits = Zero

clear(bits) == Zero

is_disjoint(self, other) == BitAnd(self, other) = Zero

is_superset(self, other) == BitAnd(self, other) = other

is_subset(self, other) == is_superset(other, self)

union(self, other) == new_with_bits(BitOr(self, other))

intersection(self, other) == new_with_bits(BitAnd(self, other))

\* A difference that complements with | instead of &.
differenceOr(self, other) == new_with_bits(BitOr(self, BitNot(other)))

difference(self, other) == new_with_bits(BitAnd(self, BitNot(other)))

\* A symmetric difference that keeps only the receiver's side.
symmetric_differenceOneSided(self, other) ==
    new_with_bits(BitAnd(self, BitNot(other)))

symmetric_difference(self, other) == new_with_bits(BitXor(self, other))

contains(ty, bits, value) ==
    LET b == bit(ty, value)
    IN  IF b.panicked THEN [panicked |-> TRUE, ret |-> FALSE]
        ELSE [panicked |-> FALSE, ret |-> BitAnd(bits, b.val) # Zero]

\* An insert that toggles the bit (^=) instead of setting it (|=).
insertToggle(ty, bits, value) ==
    LET c == contains(ty, bits, value)
        b == bit(ty, value)
    IN  IF c.panicked \/ b.panicked
        THEN [panicked |-> TRUE, ret |-> FALSE, bits |-> bits]
        ELSE [panicked |-> FALSE, ret |-> ~c.ret, bits |-> BitXor(bits, b.val)]

insert(ty, bits, value) ==
    LET c == contains(ty, bits, value)
        b == bit(ty, value)
    IN  IF c.panicked \/ b.panicked
        THEN [panicked |-> TRUE, ret |-> FALSE, bits |-> bits]
        ELSE [panicked |-> FALSE, ret |-> ~c.ret, bits |-> BitOr(bits, b.val)]

\* A remove that masks with the bit itself (&= bit) instead of its
\* complement (&= !bit).
removeKeepOnly(ty, bits, value) ==
    LET c == contains(ty, bits, value)
        b == bit(ty, value)
    IN  IF c.panicked \/ b.panicked
        THEN [panicked |-> TRUE, ret |-> FALSE, bits |-> bits]
        ELSE [panicked |-> FALSE, ret |-> c.ret, bits |-> BitAnd(bits, b.val)]

remove(ty, bits, value) ==
    LET c == contains(ty, bits, value)
        b == bit(ty, value)
    IN  IF c.panicked \/ b.panicked
        THEN [panicked |-> TRUE, ret |-> FALSE, bits |-> bits]
        ELSE [panicked |-> FALSE, ret |-> c.ret,
              bits |-> BitAnd(bits, BitNot(b.val))]

sub(self, other) == difference(self, other)
bitor(self, other) == union(self, other)
bitand(self, other) == intersection(self, other)
bitxor(self, other) == symmetric_difference(self, other)

\* extend: insert every element in turn; a panicking insert ends the loop
\* with the elements before it already inserted.
RECURSIVE extend(_, _, _)
extend(ty, bits, elems) ==
    IF elems = <<>> THEN [panicked |-> FALSE, bits |-> bits]
    ELSE LET r == insert(ty, bits, Head(elems))
         IN  IF r.panicked THEN [panicked |-> TRUE, bits |-> r.bits]
             ELSE extend(ty, r.bits, Tail(elems))

from_iter(ty, elems) == extend(ty, new, elems)

----------------------------------------------------------------------------
(* Iter: a cursor (index, bits) over a copy of a set's mask.               *)

iter(bits) == [index |-> 0, bits |-> bits]

\* A clone that restarts the cursor: the bits are copied, the index is not.
cloneReset(it) == [index |-> 0, bits |-> it.bits]

\* #[derive(Clone)] on Iter: a field-by-field copy.
clone(it) == [index |-> it.index, bits |-> it.bits]

\* while (self.bits & 1) == 0 { self.index += 1; self.bits >>= 1; }
\* next() enters it only with bits # 0, so it ends at the lowest set bit.
RECURSIVE SkipZeros(_)
SkipZeros(it) ==
    IF BitAnd(it.bits, One) = Zero
    THEN SkipZeros([index |-> it.index + 1, bits |-> Shr1(it.bits)])
    ELSE it

\* next() without the `self.index += 1` that follows from_u32.
nextKeepIndex(it) ==
    IF it.bits = Zero THEN [some |-> FALSE, arg |-> 0, it |-> it]
    ELSE LET s == SkipZeros(it)
         IN  [some |-> TRUE, arg |-> s.index,
              it |-> [index |-> s.index, bits |-> Shr1(s.bits)]]

\* next(): `some` tells Some from None, `arg` is the index handed to
\* CLike::from_u32, `it` is the iterator afterwards.
next(it) ==
    IF it.bits = Zero THEN [some |-> FALSE, arg |-> 0, it |-> it]
    ELSE LET s == SkipZeros(it)
         IN  [some |-> TRUE, arg |-> s.index,
              it |-> [index |-> s.index + 1, bits |-> Shr1(s.bits)]]

\* A size_hint that counts what was already yielded too.
size_hintTotal(it) ==
    LET exact == count_ones(it.bits) + it.index
    IN  [lo |-> exact, hi |-> exact]

\* size_hint(): (exact, Some(exact))
size_hint(it) ==
    LET exact == count_ones(it.bits) IN [lo |-> exact, hi |-> exact]

----------------------------------------------------------------------------
(* derive(CLike).                                                          *)

VariantData == {"Unit", "Tuple", "Struct"}

\* The loop with the variant limit off by one: count == 33.
RECURSIVE CheckVariantsOff(_, _)
CheckVariantsOff(variants, count) ==
    IF count >= Len(variants) THEN "ok"
    ELSE LET v == variants[count + 1]
         IN  IF count = W + 1 THEN "panic: at most 32 variants"
             ELSE IF v.data # "Unit" THEN "panic: requires C style enum"
             ELSE IF v.discriminant THEN "panic: discriminants"
             ELSE CheckVariantsOff(variants, count + 1)

\* The loop of generate_enum_code over variants.iter().enumerate(), from
\* position `count` on: the first check that fails names the panic.
RECURSIVE CheckVariants(_, _)
CheckVariants(variants, count) ==
    IF count >= Len(variants) THEN "ok"
    ELSE LET v == variants[count + 1]
         IN  IF count = W THEN "panic: at most 32 variants"
             ELSE IF v.data # "Unit" THEN "panic: requires C style enum"
             ELSE IF v.discriminant THEN "panic: discriminants"
             ELSE CheckVariants(variants, count + 1)

\* generate_enum_code: the checks, then the impl: one from_u32 arm
\* `counter => name::variant` per variant, counter = 0 .. len-1 (arms[c + 1]
\* is the arm of counter c), and the body of to_u32.
generate_enum_code(variants) ==
    LET outcome == CheckVariants(variants, 0)
    IN  IF outcome # "ok"
        THEN [outcome |-> outcome, emitted |-> FALSE, arms |-> <<>>,
              to_u32 |-> "-"]
        ELSE [outcome |-> "ok", emitted |-> TRUE,
              arms |-> [c \in 1 .. Len(variants) |-> variants[c].ident],
              to_u32 |-> IF Len(variants) = 0 THEN "unreachable!()"
                         ELSE "*self as u32"]

\* derive_clike: only an enum body reaches generate_enum_code.
derive_clike(input) ==
    IF input.body = "Enum" THEN generate_enum_code(input.variants)
    ELSE [outcome |-> "panic: only defined for enums", emitted |-> FALSE,
          arms |-> <<>>, to_u32 |-> "-"]

\* Inputs of the generator: variant lists of every length up to MaxVariants
\* in which at most one variant (at position p) is not a plain unit variant,
\* and one struct.
UnitVariant(i) == [ident |-> i, data |-> "Unit", discriminant |-> FALSE]

VariantList(n, p, data, disc) ==
    [i \in 1 .. n |->
        IF i = p THEN [ident |-> i, data |-> data, discriminant |-> disc]
        ELSE UnitVariant(i)]

DeriveInputs ==
    {[body |-> "Enum", variants |-> VariantList(n, p, d[1], d[2])] :
        n \in 0 .. MaxVariants, p \in 0 .. MaxVariants,
        d \in VariantData \X BOOLEAN}
    \cup {[body |-> "Struct", variants |-> <<>>]}

----------------------------------------------------------------------------
(* State.                                                                  *)

SetIds == {1, 2}
IterIds == {1, 2}

NoCall == [op |-> "-", set |-> 0, arg |-> "-", ret |-> FALSE,
           panicked |-> FALSE]

Call(op, s, arg, ret, panicked) ==
    [op |-> op, set |-> s, arg |-> arg, ret |-> ret, panicked |-> panicked]

\* An iterator slot: `it` is the Iter value; `snap` is the mask of the set it
\* was created from, at that moment; `out` is what next() has returned so
\* far (the elements of the Some results, in order); `called` is the indices
\* next() has passed to from_u32; `done` is whether next() has returned None.
NoIter == [live |-> FALSE, it |-> iter(Zero), snap |-> Zero, out |-> <<>>,
           called |-> <<>>, done |-> FALSE]

NoGen == [input |-> [body |-> "-", variants |-> <<>>], outcome |-> "-",
          emitted |-> FALSE, arms |-> <<>>, to_u32 |-> "-"]

\* The sequences handed to extend and from_iter.
ElemsFoo == UNION {[1 .. n -> ProbeFoo] : n \in 0 .. MaxExtend}

ElemsBar == UNION {[1 .. n -> ProbeBar] : n \in 0 .. MaxExtend}

Elems(ty) == IF ty = "Foo" THEN ElemsFoo ELSE ElemsBar

Init ==
    /\ ety \in Types
    /\ sets = [k \in SetIds |-> new]
    /\ last = NoCall
    /\ its = [k \in IterIds |-> NoIter]
    /\ gen = NoGen

----------------------------------------------------------------------------
(* EnumSet operations.                                                     *)

Insert(s, e) ==
    LET r == insert(ety, sets[s], e)
    IN  /\ sets' = [sets EXCEPT ![s] = r.bits]
        /\ last' = Call("insert", s, e, r.ret, r.panicked)
        /\ UNCHANGED <<ety, its, gen>>

Remove(s, e) ==
    LET r == remove(ety, sets[s], e)
    IN  /\ sets' = [sets EXCEPT ![s] = r.bits]
        /\ last' = Call("remove", s, e, r.ret, r.panicked)
        /\ UNCHANGED <<ety, its, gen>>

Contains(s, e) ==
    LET r == contains(ety, sets[s], e)
    IN  /\ last' = Call("contains", s, e, r.ret, r.panicked)
        /\ UNCHANGED <<ety, sets, its, gen>>

Clear(s) ==
    /\ sets' = [sets EXCEPT ![s] = clear(@)]
    /\ last' = Call("clear", s, "-", FALSE, FALSE)
    /\ UNCHANGED <<ety, its, gen>>

Extend(s, elems) ==
    LET r == extend(ety, sets[s], elems)
    IN  /\ sets' = [sets EXCEPT ![s] = r.bits]
        /\ last' = Call("extend", s, "-", FALSE, r.panicked)
        /\ UNCHANGED <<ety, its, gen>>

\* let sets[s] = elems.collect(); a panic leaves no new value behind.
FromIter(s, elems) ==
    LET r == from_iter(ety, elems)
    IN  /\ sets' = IF r.panicked THEN sets ELSE [sets EXCEPT ![s] = r.bits]
        /\ last' = Call("from_iter", s, "-", FALSE, r.panicked)
        /\ UNCHANGED <<ety, its, gen>>

\* sets[d] = sets[x].op(sets[y])
Binary(op, d, bits) ==
    /\ sets' = [sets EXCEPT ![d] = bits]
    /\ last' = Call(op, d, "-", FALSE, FALSE)
    /\ UNCHANGED <<ety, its, gen>>

Union(d, x, y) == Binary("union", d, union(sets[x], sets[y]))
Intersection(d, x, y) ==
    Binary("intersection", d, intersection(sets[x], sets[y]))
Difference(d, x, y) == Binary("difference", d, difference(sets[x], sets[y]))
SymmetricDifference(d, x, y) ==
    Binary("symmetric_difference", d, symmetric_difference(sets[x], sets[y]))
OpSub(d, x, y) == Binary("sub", d, sub(sets[x], sets[y]))
OpBitOr(d, x, y) == Binary("bitor", d, bitor(sets[x], sets[y]))
OpBitAnd(d, x, y) == Binary("bitand", d, bitand(sets[x], sets[y]))
OpBitXor(d, x, y) == Binary("bitxor", d, bitxor(sets[x], sets[y]))

NextSet ==
    \/ \E s \in SetIds, e \in Probe(ety) : Insert(s, e)
    \/ \E s \in SetIds, e \in Probe(ety) : Remove(s, e)
    \/ \E s \in SetIds, e \in Probe(ety) : Contains(s, e)
    \/ \E s \in SetIds : Clear(s)
    \/ \E s \in SetIds, elems \in Elems(ety) : Extend(s, elems)
    \/ \E s \in SetIds, elems \in Elems(ety) : FromIter(s, elems)
    \/ \E d, x, y \in SetIds : Union(d, x, y)
    \/ \E d, x, y \in SetIds : Intersection(d, x, y)
    \/ \E d, x, y \in SetIds : Difference(d, x, y)
    \/ \E d, x, y \in SetIds : SymmetricDifference(d, x, y)
    \/ \E d, x, y \in SetIds : OpSub(d, x, y)
    \/ \E d, x, y \in SetIds : OpBitOr(d, x, y)
    \/ \E d, x, y \in SetIds : OpBitAnd(d, x, y)
    \/ \E d, x, y \in SetIds : OpBitXor(d, x, y)

SpecSet == Init /\ [][NextSet]_vars

----------------------------------------------------------------------------
(* Iterators.                                                              *)

\* let its[k] = sets[s].iter();
IterNew(k, s) ==
    /\ its' = [its EXCEPT ![k] =
                 [live |-> TRUE, it |-> iter(sets[s]), snap |-> sets[s],
                  out |-> <<>>, called |-> <<>>, done |-> FALSE]]
    /\ last' = Call("iter", s, "-", FALSE, FALSE)
    /\ UNCHANGED <<ety, sets, gen>>

\* its[k].next(): None, or Some(from_u32(index)).
IterNext(k) ==
    /\ its[k].live
    /\ LET r == next(its[k].it)
       IN  IF r.some
           THEN \E elem \in from_u32(ety, r.arg) :
                  /\ its' = [its EXCEPT ![k].it = r.it,
                                        ![k].out = Append(@, elem),
                                        ![k].called = Append(@, r.arg)]
                  /\ last' = Call("next", k, elem, TRUE, FALSE)
           ELSE /\ its' = [its EXCEPT ![k].it = r.it, ![k].done = TRUE]
                /\ last' = Call("next", k, "-", FALSE, FALSE)
    /\ UNCHANGED <<ety, sets, gen>>

\* let its[k] = its[j].clone();
IterClone(j, k) ==
    /\ j # k
    /\ its[j].live
    /\ its' = [its EXCEPT ![k] = [its[j] EXCEPT !.it = clone(its[j].it)]]
    /\ last' = Call("clone", j, "-", FALSE, FALSE)
    /\ UNCHANGED <<ety, sets, gen>>

\* The set the iterators are taken from, mutated between the next() calls.
NextIter ==
    \/ \E e \in Probe(ety) : Insert(1, e)
    \/ \E e \in Probe(ety) : Remove(1, e)
    \/ Clear(1)
    \/ \E k \in IterIds : IterNew(k, 1)
    \/ \E k \in IterIds : IterNext(k)
    \/ \E j, k \in IterIds : IterClone(j, k)

SpecIter == Init /\ [][NextIter]_vars

----------------------------------------------------------------------------
(* The generator.                                                          *)

\* One expansion of #[derive(CLike)] on one type definition.
Derive(input) ==
    LET r == derive_clike(input)
    IN  /\ gen = NoGen
        /\ gen' = [input |-> input, outcome |-> r.outcome,
                   emitted |-> r.emitted, arms |-> r.arms,
                   to_u32 |-> r.to_u32]
        /\ UNCHANGED <<ety, sets, last, its>>

NextGen == \E input \in DeriveInputs : Derive(input)

SpecGen == Init /\ [][NextGen]_vars

----------------------------------------------------------------------------
(* Vocabulary of the properties.                                           *)

\* The values of the element type with a bit of their own in the mask.
InRange(ty) == {e \in Values(ty) : to_u32(ty, e) < W}

\* The values a mask contains, by contains().
Members(ty, bits) == {e \in InRange(ty) : contains(ty, bits, e).ret}

\* A set of values as the sequence of its elements in ascending ordinal order.
RECURSIVE Ascending(_, _)
Ascending(ty, S) ==
    IF S = {} THEN <<>>
    ELSE LET m == CHOOSE e \in S :
                    \A f \in S : to_u32(ty, e) <= to_u32(ty, f)
         IN  <<m>> \o Ascending(ty, S \ {m})

\* The indices next() would pass to from_u32 if called until it returns None.
RECURSIVE Drain(_)
Drain(it) ==
    LET r == next(it)
    IN  IF r.some THEN <<r.arg>> \o Drain(r.it) ELSE <<>>

\* The elements those calls would return.
Rest(ty, it) ==
    LET d == Drain(it)
    IN  [i \in 1 .. Len(d) |-> CHOOSE e \in from_u32(ty, d[i]) : TRUE]

----------------------------------------------------------------------------
(* C1.  Every bit set in the mask of a set built by the documented         *)
(* operations is the ordinal to_u32(e) of some value e of the element      *)
(* type: no bit without a variant is ever set.                             *)
C1_NoJunkBits ==
    \A s \in SetIds : \A i \in sets[s] :
        \E e \in Values(ety) : to_u32(ety, e) = i

\* A difference has produced a non-empty set of a type that leaves mask
\* bits without a variant.
C1_Witness ==
    /\ ety = "Foo"
    /\ last.op = "difference"
    /\ sets[last.set] # Zero
    /\ sets[1] # sets[2]

----------------------------------------------------------------------------
(* C3.  insert(x) returns true iff x was not contained before; afterwards  *)
(* x is contained, len() has grown by 1 if it returned true and by 0       *)
(* otherwise, and every other value is contained as before.  An insert of  *)
(* x right after an insert of x that returned true returns false and       *)
(* leaves len() as it is.                                                  *)
C3_InsertStep ==
    (last'.op = "insert" /\ ~last'.panicked) =>
        LET s == last'.set
            x == last'.arg
        IN  /\ last'.ret <=> ~contains(ety, sets[s], x).ret
            /\ contains(ety, sets'[s], x).ret
            /\ len(sets'[s]) = len(sets[s]) + (IF last'.ret THEN 1 ELSE 0)
            /\ \A y \in InRange(ety) \ {x} :
                 contains(ety, sets'[s], y).ret = contains(ety, sets[s], y).ret
            /\ (last.op = "insert" /\ last.set = s /\ last.arg = x
                  /\ ~last.panicked /\ last.ret)
               => (~last'.ret /\ len(sets'[s]) = len(sets[s]))

\* C3: every insert step that returns is as C3_InsertStep says.
C3_Insert == [][C3_InsertStep]_vars

\* An insert has returned false on a set holding other values too.
C3_Witness ==
    /\ last.op = "insert"
    /\ ~last.panicked
    /\ ~last.ret
    /\ len(sets[last.set]) >= 2

----------------------------------------------------------------------------
(* C9.  remove(x) returns true iff x was contained before; afterwards x    *)
(* is not contained, len() has shrunk by 1 if it returned true and by 0    *)
(* otherwise, and every other value is contained as before.  clear()      *)
(* leaves the set with no members and len() = 0.                           *)
C9_RemoveClearStep ==
    /\ (last'.op = "remove" /\ ~last'.panicked) =>
         LET s == last'.set
             x == last'.arg
         IN  /\ last'.ret <=> contains(ety, sets[s], x).ret
             /\ ~contains(ety, sets'[s], x).ret
             /\ len(sets'[s]) = len(sets[s]) - (IF last'.ret THEN 1 ELSE 0)
             /\ \A y \in InRange(ety) \ {x} :
                  contains(ety, sets'[s], y).ret
                    = contains(ety, sets[s], y).ret
    /\ last'.op = "clear" =>
         /\ Members(ety, sets'[last'.set]) = {}
         /\ len(sets'[last'.set]) = 0

\* C9: every remove step that returns and every clear step is as
\* C9_RemoveClearStep says.
C9_RemoveClear == [][C9_RemoveClearStep]_vars

\* A remove has returned true and left other values in the set.
C9_Witness ==
    /\ last.op = "remove"
    /\ ~last.panicked
    /\ last.ret
    /\ len(sets[last.set]) >= 1

----------------------------------------------------------------------------
(* C5.  insert, remove and contains called with a value whose ordinal is   *)
(* W or more end in the assertion failure of bit() and leave every mask    *)
(* as it was; with an ordinal below W, W - 1 included, they do not fail,   *)
(* and after inserting the value of ordinal W - 1 it is contained.         *)
C5_OrdinalBoundStep ==
    (last'.op \in {"insert", "remove", "contains"}) =>
        LET s == last'.set
            x == last'.arg
        IN  /\ to_u32(ety, x) >= W => (last'.panicked /\ sets' = sets)
            /\ to_u32(ety, x) < W => ~last'.panicked
            /\ (last'.op = "insert" /\ to_u32(ety, x) = W - 1)
               => contains(ety, sets'[s], x)
                    = [panicked |-> FALSE, ret |-> TRUE]

\* C5: every insert, remove and contains step is as C5_OrdinalBoundStep says.
C5_OrdinalBound == [][C5_OrdinalBoundStep]_vars

\* An insert of a value of ordinal W or more has panicked on a set that
\* holds the value of ordinal W - 1.
C5_Witness ==
    /\ last.op = "insert"
    /\ last.panicked
    /\ to_u32(ety, last.arg) >= W
    /\ (W - 1) \in sets[last.set]

----------------------------------------------------------------------------
(* C4.  For all sets a, b: union and intersection commute; a.difference(b) *)
(* = a - (a & b); a - (a - b) = a & b; a ^ b = (a - b) | (b - a)           *)
(* = (a | b) - (a & b); and each result contains exactly the members of    *)
(* the mathematical union, intersection, difference and symmetric         *)
(* difference.  Two sets are equal iff their masks are.                    *)
AlgebraLaws(a, b) ==
    /\ union(a, b) = union(b, a)
    /\ intersection(a, b) = intersection(b, a)
    /\ difference(a, b) = sub(a, bitand(a, b))
    /\ sub(a, sub(a, b)) = bitand(a, b)
    /\ bitxor(a, b) = bitor(sub(a, b), sub(b, a))
    /\ bitxor(a, b) = sub(bitor(a, b), bitand(a, b))
    /\ Members(ety, union(a, b)) = Members(ety, a) \cup Members(ety, b)
    /\ Members(ety, bitor(a, b)) = Members(ety, a) \cup Members(ety, b)
    /\ Members(ety, intersection(a, b)) = Members(ety, a) \cap Members(ety, b)
    /\ Members(ety, bitand(a, b)) = Members(ety, a) \cap Members(ety, b)
    /\ Members(ety, difference(a, b)) = Members(ety, a) \ Members(ety, b)
    /\ Members(ety, sub(a, b)) = Members(ety, a) \ Members(ety, b)
    /\ Members(ety, symmetric_difference(a, b))
         = (Members(ety, a) \ Members(ety, b))
             \cup (Members(ety, b) \ Members(ety, a))
    /\ Members(ety, bitxor(a, b)) = Members(ety, symmetric_difference(a, b))

\* C4: the laws hold for every ordered pair of the sets.
C4_Algebra == \A x, y \in SetIds : AlgebraLaws(sets[x], sets[y])

\* The operands overlap without either holding the other, as {A, C} and
\* {B, C} do, and ^ has just been applied.
C4_Witness ==
    /\ last.op = "bitxor"
    /\ \E x, y \in SetIds :
         /\ sets[x] \ sets[y] # {}
         /\ sets[y] \ sets[x] # {}
         /\ sets[x] \cap sets[y] # {}

----------------------------------------------------------------------------
(* C2.  What next() has returned is in strictly ascending ordinal order,   *)
(* and once it has returned None it has returned exactly the values the    *)
(* set contained, each once, and every further next() returns None.        *)
StrictlyAscending(ty, seq) ==
    /\ \A i \in 1 .. Len(seq) : seq[i] \in Values(ty)
    /\ \A i, j \in 1 .. Len(seq) :
         i < j => to_u32(ty, seq[i]) < to_u32(ty, seq[j])

\* C2: ascending at every point, exact and stuck at None once exhausted.
C2_IterationExact ==
    \A k \in IterIds : its[k].live =>
        /\ StrictlyAscending(ety, its[k].out)
        /\ its[k].done =>
             /\ {its[k].out[i] : i \in 1 .. Len(its[k].out)}
                  = Members(ety, its[k].snap)
             /\ Len(its[k].out) = Cardinality(Members(ety, its[k].snap))
             /\ ~next(its[k].it).some

\* next() has just returned None after yielding two or more values.
C2_Witness ==
    /\ last.op = "next"
    /\ ~last.ret
    /\ its[last.set].done
    /\ Len(its[last.set].out) >= 2

----------------------------------------------------------------------------
(* C7.  At every point, what an iterator has yielded followed by what it   *)
(* will still yield is the ascending sequence of the members the set had   *)
(* when the iterator was created, whatever has been done to the set since  *)
(* and whatever next() calls were made on the iterator it was cloned from  *)
(* or on its clone.                                                        *)
C7_SnapshotAndClone ==
    \A k \in IterIds : its[k].live =>
        its[k].out \o Rest(ety, its[k].it)
          = Ascending(ety, Members(ety, its[k].snap))

\* Two iterators over the same snapshot stand at different positions, both
\* with something left to yield, and the set has changed since.
C7_Witness ==
    /\ its[1].live /\ its[2].live
    /\ its[1].snap = its[2].snap
    /\ Len(its[1].out) # Len(its[2].out)
    /\ its[1].it.bits # Zero /\ its[2].it.bits # Zero
    /\ sets[1] # its[1].snap
    /\ last.op = "next"

----------------------------------------------------------------------------
(* C8.  len() is the number of elements iter() yields; is_empty() is       *)
(* len() = 0; the size_hint of an iterator is at every point (n, Some(n))  *)
(* with n the number of elements next() will still yield, which for a      *)
(* fresh iterator is len().                                                *)
C8_Cardinality ==
    /\ len(sets[1]) = Len(Drain(iter(sets[1])))
    /\ is_empty(sets[1]) <=> (len(sets[1]) = 0)
    /\ size_hint(iter(sets[1])) = [lo |-> len(sets[1]), hi |-> len(sets[1])]
    /\ \A k \in IterIds : its[k].live =>
         LET n == Len(Drain(its[k].it))
         IN  size_hint(its[k].it) = [lo |-> n, hi |-> n]

\* An iterator is part way through a set of two or more members.
C8_Witness ==
    /\ len(sets[1]) >= 2
    /\ \E k \in IterIds :
         /\ its[k].live
         /\ Len(its[k].out) >= 1
         /\ size_hint(its[k].it).lo >= 1

----------------------------------------------------------------------------
(* C10.  Every index next() has passed to from_u32 is below W and is the   *)
(* ordinal of a value of the element type that the set contained when the  *)
(* iterator was created; the iterator's index never exceeds W.             *)
C10_FromU32Sound ==
    \A k \in IterIds : its[k].live =>
        /\ its[k].it.index <= W
        /\ \A i \in 1 .. Len(its[k].called) :
             /\ its[k].called[i] < W
             /\ \E e \in Values(ety) :
                  /\ to_u32(ety, e) = its[k].called[i]
                  /\ e \in Members(ety, its[k].snap)

\* next() has passed W - 1 to from_u32 and left the index at W.
C10_Witness ==
    \E k \in IterIds :
        /\ its[k].live
        /\ its[k].it.index = W
        /\ Len(its[k].called) >= 2
        /\ its[k].called[Len(its[k].called)] = W - 1

----------------------------------------------------------------------------
(* C6.  derive(CLike) on an enum panics and emits no implementation if     *)
(* the variant list has more than W variants, or a variant with data, or   *)
(* a variant with an explicit discriminant; on every other list (0 to W    *)
(* unit variants without discriminants) it emits an implementation, with   *)
(* one from_u32 arm per variant in declaration order.                      *)
Ineligible(variants) ==
    \/ Len(variants) > W
    \/ \E i \in 1 .. Len(variants) : variants[i].data # "Unit"
    \/ \E i \in 1 .. Len(variants) : variants[i].discriminant

\* C6: rejected with nothing emitted iff ineligible, else emitted in full.
C6_Eligibility ==
    gen.input.body = "Enum" =>
        IF Ineligible(gen.input.variants)
        THEN /\ ~gen.emitted
             /\ gen.outcome \notin {"ok", "-"}
             /\ gen.arms = <<>>
        ELSE /\ gen.emitted
             /\ gen.outcome = "ok"
             /\ Len(gen.arms) = Len(gen.input.variants)
             /\ \A c \in 1 .. Len(gen.arms) :
                  gen.arms[c] = gen.input.variants[c].ident

\* An enum of exactly W unit variants has been accepted.
C6_Witness ==
    /\ gen.input.body = "Enum"
    /\ Len(gen.input.variants) = W
    /\ gen.emitted

====
